---- MODULE Spec2Model ----
(***************************************************************************)
(* Model of src/azure.healthcare_.py: the threshold evaluator              *)
(* (evaluate_alerts), the alert composer (shorten_message,                 *)
(* create_alert_message), the SMS chunking and delivery loop               *)
(* (send_twilio_alert, with textwrap.wrap as the library computes it), the *)
(* series merge of save_to_csv, and the run pipeline of main.              *)
(*                                                                         *)
(* Strings are sequences of one-character strings, so that lengths,        *)
(* slices and concatenations are those of the Python strings.  Timestamps  *)
(* of samples are small integers standing for ISO-8601 strings of one      *)
(* zone: their integer order is the lexicographic order of the strings.    *)
(***************************************************************************)
EXTENDS Integers, Sequences, FiniteSets, TLC

VARIABLES
    pc,                 \* position in the function(s) being run
    heart_data,         \* sequence of samples [ts, val]
    spo2_data,          \* sequence of samples [ts, val]
    HR_LOW_THRESHOLD,   \* module constant resolved at import (line 23)
    HR_HIGH_THRESHOLD,  \* [set, v]: None when set = FALSE (lines 26-27)
    SPO2_LOW_THRESHOLD, \* line 24
    alert_needed,       \* evaluate_alerts local
    reasons,            \* evaluate_alerts local
    latest_hr,          \* evaluate_alerts local / create_alert_message argument
    latest_spo2,        \* evaluate_alerts local / create_alert_message argument
    idx,                \* position of the running for-loop (1-based)
    TRIAL_ENV,          \* the TRIAL_ACCOUNT environment variable ([set, s])
    SMS_CHAR_LIMIT,     \* line 41
    hospitals_link,     \* argument of main / create_alert_message
    timestamp,          \* rendered wall-clock timestamp (line 207)
    message,            \* the composed alert message
    twilio_cfg,         \* TRUE when SID, token, phone and contacts are all truthy
    EMERGENCY_CONTACTS, \* sequence of numbers (lines 32-34)
    chunks,             \* textwrap.wrap's result in send_twilio_alert
    part,               \* outer loop index i of send_twilio_alert (1-based)
    attempts,           \* log of client.messages.create calls
    rows,               \* data rows written by save_to_csv
    csv_state,          \* "none" | "ok" | "failed"
    cosmos_state        \* "none" | "ok" | "failed"

vars == <<pc, heart_data, spo2_data, HR_LOW_THRESHOLD, HR_HIGH_THRESHOLD,
          SPO2_LOW_THRESHOLD, alert_needed, reasons, latest_hr, latest_spo2,
          idx, TRIAL_ENV, SMS_CHAR_LIMIT, hospitals_link, timestamp, message,
          twilio_cfg, EMERGENCY_CONTACTS, chunks, part, attempts, rows,
          csv_state, cosmos_state>>

evalVars == <<alert_needed, reasons, latest_hr, latest_spo2, idx>>
dataVars == <<heart_data, spo2_data>>
thresholdVars == <<HR_LOW_THRESHOLD, HR_HIGH_THRESHOLD, SPO2_LOW_THRESHOLD>>
composeVars == <<TRIAL_ENV, SMS_CHAR_LIMIT, hospitals_link, timestamp, message>>
sendVars == <<twilio_cfg, EMERGENCY_CONTACTS, chunks, part, attempts>>
persistVars == <<rows, csv_state, cosmos_state>>

(***************************************************************************)
(* Bounds of the model.                                                    *)
(***************************************************************************)
MaxHeart == 2       \* longest heart-rate series drawn
MaxSpo2 == 1        \* longest oxygen series drawn
MaxLinkLen == 3     \* longest hospitals_link drawn
MaxLimit == 44      \* largest SMS_CHAR_LIMIT drawn for the composer
MaxMsgLen == 6      \* longest message drawn for send_twilio_alert
MaxSendLimit == 5   \* largest SMS_CHAR_LIMIT drawn for send_twilio_alert
MaxContacts == 2    \* most emergency contacts drawn

(***************************************************************************)
(* Generic helpers.                                                        *)
(***************************************************************************)
SeqsUpTo(S, n) == UNION {[1..k -> S] : k \in 0..n}

Last(s) == s[Len(s)]

Range(s) == {s[k] : k \in 1..Len(s)}

\* Python's s[:-k] for k >= 1: drop the last k characters (empty when k >= len).
DropLast(s, k) == IF k >= Len(s) THEN <<>> ELSE SubSeq(s, 1, Len(s) - k)

RECURSIVE Concat(_)
Concat(ss) == IF ss = <<>> THEN <<>> ELSE Head(ss) \o Concat(Tail(ss))

Digits == <<"0", "1", "2", "3", "4", "5", "6", "7", "8", "9">>

\* str(n) of a non-negative int.
RECURSIVE IntStr(_)
IntStr(n) == IF n < 10 THEN <<Digits[n + 1]>>
             ELSE IntStr(n \div 10) \o <<Digits[(n % 10) + 1]>>

IsDigit(c) == \E d \in 1..10 : Digits[d] = c

DigitVal(c) == (CHOOSE d \in 1..10 : Digits[d] = c) - 1

RECURSIVE DecimalVal(_)
DecimalVal(s) == IF s = <<>> THEN 0
                 ELSE 10 * DecimalVal(SubSeq(s, 1, Len(s) - 1)) + DigitVal(Last(s))

(***************************************************************************)
(* Sample values.  A value is a number (fpVal / intVal) or a string.       *)
(***************************************************************************)
NumV(n) == [k |-> "num", n |-> n, s |-> <<>>]
StrV(s) == [k |-> "str", n |-> 0, s |-> s]

NA == StrV(<<"N", "/", "A">>)

\* float(v) raises for a string that is not a number literal; of the literals
\* only unsigned decimal digit strings are drawn here.
FloatRaises(v) == v.k = "str" /\ (v.s = <<>> \/ \E c \in Range(v.s) : ~IsDigit(c))

Float(v) == IF v.k = "num" THEN v.n ELSE DecimalVal(v.s)

\* f"{v}" of a value.
Render(v) == IF v.k = "num" THEN IntStr(v.n) ELSE v.s

Sample(t, v) == [ts |-> t, val |-> v]

Timestamps == {1, 2}
HeartValues == {NumV(40), NumV(60), NumV(80), StrV(<<"x">>), StrV(<<"4", "5">>)}
Spo2Values == {NumV(85), NumV(95), StrV(<<"x">>)}
HeartSamples == {Sample(t, v) : t \in Timestamps, v \in HeartValues}
Spo2Samples == {Sample(t, v) : t \in Timestamps, v \in Spo2Values}

NoHigh == [set |-> FALSE, v |-> 0]
High(v) == [set |-> TRUE, v |-> v]

\* Bounds drawn: a low bound that a drawn value equals (40, 60), a high bound
\* above it (80) and one below it (40: the inverted configuration).
LowBounds == {40, 60}
HighBounds == {NoHigh, High(80), High(40)}
Spo2Bounds == {85}

(***************************************************************************)
(* evaluate_alerts (lines 237-269), one action per loop iteration.         *)
(***************************************************************************)
Reason(kind, sample, bound) ==
    [kind |-> kind, val |-> Render(sample.val), ts |-> sample.ts, bound |-> bound]

LatestOf(data) == IF data # <<>> THEN Last(data).val ELSE NA

LowHit(v, bound) == ~FloatRaises(v) /\ Float(v) <= bound

\* Mutant: the high pass compares the wrong way round.
HighHitFlipped(v, bound) == ~FloatRaises(v) /\ Float(v) <= bound

HighHit(v, bound) == ~FloatRaises(v) /\ Float(v) >= bound

EvalStart ==
    /\ pc = "eval_start"
    /\ alert_needed' = FALSE
    /\ reasons' = <<>>
    /\ latest_hr' = LatestOf(heart_data)
    /\ latest_spo2' = LatestOf(spo2_data)
    /\ idx' = 1
    /\ pc' = "hr_low"
    /\ UNCHANGED <<dataVars, thresholdVars, composeVars, sendVars, persistVars>>

\* Mutant: the try encloses the whole loop, so a malformed value ends the scan.
ScanStepAbort(data, kind, hit, bound) ==
    /\ idx <= Len(data)
    /\ IF FloatRaises(data[idx].val)
       THEN idx' = Len(data) + 1 /\ UNCHANGED <<reasons, alert_needed>>
       ELSE /\ idx' = idx + 1
            /\ IF hit[idx]
               THEN /\ reasons' = Append(reasons, Reason(kind, data[idx], bound))
                    /\ alert_needed' = TRUE
               ELSE UNCHANGED <<reasons, alert_needed>>
    /\ UNCHANGED <<pc, latest_hr, latest_spo2>>
    /\ UNCHANGED <<dataVars, thresholdVars, composeVars, sendVars, persistVars>>

\* Mutant: the oxygen pass appends its reason and forgets the flag.
ScanStepNoFlag(data, kind, hit, bound) ==
    /\ idx <= Len(data)
    /\ IF hit[idx]
       THEN /\ reasons' = Append(reasons, Reason(kind, data[idx], bound))
            /\ alert_needed' = (alert_needed \/ kind # "LowSpO2")
       ELSE UNCHANGED <<reasons, alert_needed>>
    /\ idx' = idx + 1
    /\ UNCHANGED <<pc, latest_hr, latest_spo2>>
    /\ UNCHANGED <<dataVars, thresholdVars, composeVars, sendVars, persistVars>>

\* Mutant: reasons.insert(0, ...) instead of reasons.append(...).
ScanStepPrepend(data, kind, hit, bound) ==
    /\ idx <= Len(data)
    /\ IF hit[idx]
       THEN /\ reasons' = <<Reason(kind, data[idx], bound)>> \o reasons
            /\ alert_needed' = TRUE
       ELSE UNCHANGED <<reasons, alert_needed>>
    /\ idx' = idx + 1
    /\ UNCHANGED <<pc, latest_hr, latest_spo2>>
    /\ UNCHANGED <<dataVars, thresholdVars, composeVars, sendVars, persistVars>>

\* One iteration of a scan: the body of the try, or the except/continue.
ScanStep(data, kind, hit, bound) ==
    /\ idx <= Len(data)
    /\ IF hit[idx]
       THEN /\ reasons' = Append(reasons, Reason(kind, data[idx], bound))
            /\ alert_needed' = TRUE
       ELSE UNCHANGED <<reasons, alert_needed>>
    /\ idx' = idx + 1
    /\ UNCHANGED <<pc, latest_hr, latest_spo2>>
    /\ UNCHANGED <<dataVars, thresholdVars, composeVars, sendVars, persistVars>>

ScanEnd(data, next) ==
    /\ idx > Len(data)
    /\ idx' = 1
    /\ pc' = next
    /\ UNCHANGED <<alert_needed, reasons, latest_hr, latest_spo2>>
    /\ UNCHANGED <<dataVars, thresholdVars, composeVars, sendVars, persistVars>>

EvalLowStep ==
    /\ pc = "hr_low"
    /\ ScanStep(heart_data, "LowHR",
                [k \in 1..Len(heart_data) |-> LowHit(heart_data[k].val, HR_LOW_THRESHOLD)],
                HR_LOW_THRESHOLD)

EvalLowEnd ==
    /\ pc = "hr_low"
    /\ ScanEnd(heart_data, IF HR_HIGH_THRESHOLD.set THEN "hr_high" ELSE "spo2_low")

EvalHighStep ==
    /\ pc = "hr_high"
    /\ ScanStep(heart_data, "HighHR",
                [k \in 1..Len(heart_data) |-> HighHit(heart_data[k].val, HR_HIGH_THRESHOLD.v)],
                HR_HIGH_THRESHOLD.v)

EvalHighEnd ==
    /\ pc = "hr_high"
    /\ ScanEnd(heart_data, "spo2_low")

EvalSpo2Step ==
    /\ pc = "spo2_low"
    /\ ScanStep(spo2_data, "LowSpO2",
                [k \in 1..Len(spo2_data) |-> LowHit(spo2_data[k].val, SPO2_LOW_THRESHOLD)],
                SPO2_LOW_THRESHOLD)

EvalReturn ==
    /\ pc = "spo2_low"
    /\ ScanEnd(spo2_data, "eval_ret")

NextEval ==
    \/ EvalStart
    \/ EvalLowStep
    \/ EvalLowEnd
    \/ EvalHighStep
    \/ EvalHighEnd
    \/ EvalSpo2Step
    \/ EvalReturn

(***************************************************************************)
(* Alert composer: shorten_message (lines 193-203), create_alert_message   *)
(* (lines 206-214) and the resolution of TRIAL_ACCOUNT (line 40).          *)
(***************************************************************************)
\* f"HR:{latest_hr}bpm SpO2:{latest_spo2}% Time:{timestamp} "; the "2" of SpO2
\* stands for the one-character subscript two of the source.
BaseText(hr, sp, ts) ==
    <<"H", "R", ":">> \o Render(hr) \o
    <<"b", "p", "m", " ", "S", "p", "O", "2", ":">> \o Render(sp) \o
    <<"%", " ", "T", "i", "m", "e", ":">> \o ts \o <<" ">>

LinksText(link) == <<"H", ":">> \o link

shorten_message(hr, sp, ts, link) ==
    LET base == BaseText(hr, sp, ts)
        links == LinksText(link)
        msg == base \o links
        excess == Len(msg) - SMS_CHAR_LIMIT
    IN  IF Len(msg) > SMS_CHAR_LIMIT
        THEN base \o (IF excess < Len(links) THEN DropLast(links, excess) ELSE links)
        ELSE msg

FullMessage(hr, sp, ts, link) ==
    <<"A", "l", "e", "r", "t", "\n">> \o
    <<"P", "a", "t", "i", "e", "n", "t", ":", " ", "X", "X", "X", "X", "X", "X", "\n">> \o
    <<"H", "e", "a", "r", "t", " ", "R", "a", "t", "e", ":", " ">> \o Render(hr) \o
    <<"b", "p", "m", "\n">> \o
    <<"S", "p", "O", "2", ":", " ">> \o Render(sp) \o <<"%", "\n">> \o
    <<"T", "i", "m", "e", ":", " ">> \o ts \o <<"\n">> \o
    <<"H", "o", "s", "p", "i", "t", "a", "l", "s", ":", " ">> \o link

\* str.lower() on the characters the drawn flag values use.
LowerChar(c) ==
    CASE c = "T" -> "t" [] c = "R" -> "r" [] c = "U" -> "u" [] c = "E" -> "e"
      [] c = "Y" -> "y" [] c = "S" -> "s" [] c = "N" -> "n" [] c = "O" -> "o"
      [] OTHER -> c

Lower(s) == [k \in 1..Len(s) |-> LowerChar(s[k])]

EnvUnset == [set |-> FALSE, s |-> <<>>]
EnvSet(s) == [set |-> TRUE, s |-> s]

\* Mutant: the default of the flag is "false".
TrialAccountDefaultFalse ==
    LET raw == IF TRIAL_ENV.set THEN TRIAL_ENV.s ELSE <<"f", "a", "l", "s", "e">>
    IN  Lower(raw) \in {<<"1">>, <<"t", "r", "u", "e">>, <<"y", "e", "s">>}

\* os.getenv("TRIAL_ACCOUNT", "true").lower() in ("1", "true", "yes")
TRIAL_ACCOUNT ==
    LET raw == IF TRIAL_ENV.set THEN TRIAL_ENV.s ELSE <<"t", "r", "u", "e">>
    IN  Lower(raw) \in {<<"1">>, <<"t", "r", "u", "e">>, <<"y", "e", "s">>}

\* datetime.now(IST).strftime("%H:%M:%S %d-%m"): the clock readings drawn.
ClockReadings ==
    {<<"1", "0", ":", "0", "0", ":", "0", "0", " ", "0", "1", "-", "0", "1">>,
     <<"2", "3", ":", "5", "9", ":", "5", "9", " ", "3", "1", "-", "1", "2">>}

create_alert_message(hr, sp, ts, link) ==
    IF TRIAL_ACCOUNT THEN shorten_message(hr, sp, ts, link)
    ELSE FullMessage(hr, sp, ts, link)

CreateAlertMessage ==
    /\ pc = "compose_start"
    /\ \E now \in ClockReadings :
          /\ timestamp' = now
          /\ message' = create_alert_message(latest_hr, latest_spo2, now, hospitals_link)
    /\ pc' = "compose_ret"
    /\ UNCHANGED <<TRIAL_ENV, SMS_CHAR_LIMIT, hospitals_link>>
    /\ UNCHANGED <<dataVars, thresholdVars, evalVars, sendVars, persistVars>>

\* shorten_message called on its own, on any inputs.
ShortenMessage ==
    /\ pc = "compose_start"
    /\ \E now \in ClockReadings :
          /\ timestamp' = now
          /\ message' = shorten_message(latest_hr, latest_spo2, now, hospitals_link)
    /\ pc' = "shorten_ret"
    /\ UNCHANGED <<TRIAL_ENV, SMS_CHAR_LIMIT, hospitals_link>>
    /\ UNCHANGED <<dataVars, thresholdVars, evalVars, sendVars, persistVars>>

NextCompose ==
    \/ CreateAlertMessage
    \/ ShortenMessage

(***************************************************************************)
(* textwrap.wrap(message, SMS_CHAR_LIMIT, break_long_words=False,          *)
(* replace_whitespace=False) as called on line 227, for a width > 0 and a  *)
(* text without tabs and hyphens (none is drawn): TextWrapper._split cuts  *)
(* the text into maximal runs of whitespace and of non-whitespace, and     *)
(* TextWrapper._wrap_chunks fills the lines (drop_whitespace=True).        *)
(***************************************************************************)
IsSpace(c) == c \in {" ", "\n"}

\* chunk.strip() == ''
IsBlank(chunk) == \A k \in 1..Len(chunk) : IsSpace(chunk[k])

\* Length of the maximal run at the head of text with the space-ness of text[1].
RECURSIVE RunLen(_, _)
RunLen(text, k) ==
    IF k < Len(text) /\ IsSpace(text[k + 1]) = IsSpace(text[1])
    THEN RunLen(text, k + 1) ELSE k

RECURSIVE Split(_)
Split(text) ==
    IF text = <<>> THEN <<>>
    ELSE LET n == RunLen(text, 1)
         IN  <<SubSeq(text, 1, n)>> \o Split(SubSeq(text, n + 1, Len(text)))

\* The inner while loop: take chunks while they fit.
RECURSIVE FillLine(_, _, _, _)
FillLine(cs, cur, curLen, width) ==
    IF cs # <<>> /\ curLen + Len(Head(cs)) <= width
    THEN FillLine(Tail(cs), Append(cur, Head(cs)), curLen + Len(Head(cs)), width)
    ELSE [cur |-> cur, rest |-> cs]

\* _handle_long_word with break_long_words=False: a chunk wider than the line
\* goes on a line of its own, whole.
HandleLongWord(f, width) ==
    IF f.rest # <<>> /\ Len(Head(f.rest)) > width /\ f.cur = <<>>
    THEN [cur |-> <<Head(f.rest)>>, rest |-> Tail(f.rest)]
    ELSE f

RECURSIVE WrapChunks(_, _, _)
WrapChunks(cs, lines, width) ==
    IF cs = <<>> THEN lines
    ELSE LET cs1 == IF IsBlank(Head(cs)) /\ lines # <<>> THEN Tail(cs) ELSE cs
             f == HandleLongWord(FillLine(cs1, <<>>, 0, width), width)
             cur == IF f.cur # <<>> /\ IsBlank(Last(f.cur))
                    THEN SubSeq(f.cur, 1, Len(f.cur) - 1) ELSE f.cur
         IN  WrapChunks(f.rest, IF cur # <<>> THEN Append(lines, Concat(cur)) ELSE lines,
                        width)

Wrap(text, width) == WrapChunks(Split(text), <<>>, width)

(***************************************************************************)
(* send_twilio_alert (lines 217-235).                                      *)
(***************************************************************************)
\* f"Part {i}/{len(chunks)}: {chunk}" if len(chunks) > 1 else chunk
Body(i, n, chunk) ==
    IF n > 1
    THEN <<"P", "a", "r", "t", " ">> \o IntStr(i) \o <<"/">> \o IntStr(n) \o
         <<":", " ">> \o chunk
    ELSE chunk

\* Lines 218-220: the configuration is incomplete.
SendSkipConfig ==
    /\ pc = "send_start"
    /\ ~(twilio_cfg /\ EMERGENCY_CONTACTS # <<>>)
    /\ pc' = "send_ret"
    /\ UNCHANGED <<twilio_cfg, EMERGENCY_CONTACTS, chunks, part, attempts>>
    /\ UNCHANGED <<dataVars, thresholdVars, evalVars, composeVars, persistVars>>

\* Lines 221-225: Client(...) raises.
SendClientFail ==
    /\ pc = "send_start"
    /\ twilio_cfg /\ EMERGENCY_CONTACTS # <<>>
    /\ pc' = "send_ret"
    /\ UNCHANGED <<twilio_cfg, EMERGENCY_CONTACTS, chunks, part, attempts>>
    /\ UNCHANGED <<dataVars, thresholdVars, evalVars, composeVars, persistVars>>

\* Lines 222 and 227: the client is built and the message wrapped.
SendWrap ==
    /\ pc = "send_start"
    /\ twilio_cfg /\ EMERGENCY_CONTACTS # <<>>
    /\ chunks' = Wrap(message, SMS_CHAR_LIMIT)
    /\ part' = 1
    /\ idx' = 1
    /\ pc' = "send_loop"
    /\ UNCHANGED <<twilio_cfg, EMERGENCY_CONTACTS, attempts>>
    /\ UNCHANGED <<alert_needed, reasons, latest_hr, latest_spo2>>
    /\ UNCHANGED <<dataVars, thresholdVars, composeVars, persistVars>>

\* Mutant: the try encloses both loops, so the first failed send ends them.
SendAttemptAbortOnFail ==
    /\ pc = "send_loop"
    /\ part <= Len(chunks)
    /\ \E ok \in BOOLEAN :
          /\ attempts' = Append(attempts,
                                [part |-> part, to |-> EMERGENCY_CONTACTS[idx],
                                 body |-> Body(part, Len(chunks), chunks[part]),
                                 ok |-> ok])
          /\ IF ~ok
             THEN idx' = 1 /\ part' = Len(chunks) + 1
             ELSE IF idx < Len(EMERGENCY_CONTACTS)
                  THEN idx' = idx + 1 /\ part' = part
                  ELSE idx' = 1 /\ part' = part + 1
    /\ UNCHANGED <<pc, twilio_cfg, EMERGENCY_CONTACTS, chunks>>
    /\ UNCHANGED <<alert_needed, reasons, latest_hr, latest_spo2>>
    /\ UNCHANGED <<dataVars, thresholdVars, composeVars, persistVars>>

\* Lines 229-235: one client.messages.create call, which succeeds or raises;
\* either way the loops go on to the next contact, then the next part.
SendAttempt ==
    /\ pc = "send_loop"
    /\ part <= Len(chunks)
    /\ \E ok \in BOOLEAN :
          attempts' = Append(attempts,
                             [part |-> part, to |-> EMERGENCY_CONTACTS[idx],
                              body |-> Body(part, Len(chunks), chunks[part]),
                              ok |-> ok])
    /\ IF idx < Len(EMERGENCY_CONTACTS)
       THEN idx' = idx + 1 /\ part' = part
       ELSE idx' = 1 /\ part' = part + 1
    /\ UNCHANGED <<pc, twilio_cfg, EMERGENCY_CONTACTS, chunks>>
    /\ UNCHANGED <<alert_needed, reasons, latest_hr, latest_spo2>>
    /\ UNCHANGED <<dataVars, thresholdVars, composeVars, persistVars>>

SendReturn ==
    /\ pc = "send_loop"
    /\ part > Len(chunks)
    /\ pc' = "send_ret"
    /\ UNCHANGED <<twilio_cfg, EMERGENCY_CONTACTS, chunks, part, attempts>>
    /\ UNCHANGED <<dataVars, thresholdVars, evalVars, composeVars, persistVars>>

NextSend ==
    \/ SendSkipConfig
    \/ SendClientFail
    \/ SendWrap
    \/ SendAttempt
    \/ SendReturn

(***************************************************************************)
(* save_to_csv (lines 121-130): the merge of the two series into rows.     *)
(***************************************************************************)
TsSet(data) == {data[k].ts : k \in 1..Len(data)}

\* sorted(S) of a finite set of timestamps.
RECURSIVE Sorted(_)
Sorted(S) ==
    IF S = {} THEN <<>>
    ELSE LET m == CHOOSE x \in S : \A y \in S : x <= y
         IN  <<m>> \o Sorted(S \ {m})

\* Mutant: the oxygen timestamps are left out of the union.
AllTimesHeartOnly(heart, spo2) == Sorted(TsSet(heart))

\* sorted(set([t for t, _ in heart_data] + [t for t, _ in spo2_data]))
AllTimes(heart, spo2) == Sorted(TsSet(heart) \cup TsSet(spo2))

\* The "" written for a timestamp a series does not hold.
EmptyField == StrV(<<>>)

\* next((v for ts, v in data if ts == t), "")
FirstAt(data, t) ==
    IF t \in TsSet(data)
    THEN data[CHOOSE k \in 1..Len(data) :
                /\ data[k].ts = t
                /\ \A j \in 1..(k - 1) : data[j].ts # t].val
    ELSE EmptyField

MergeRows(heart, spo2) ==
    LET times == AllTimes(heart, spo2)
    IN  [k \in 1..Len(times) |->
            [ts |-> times[k], hr |-> FirstAt(heart, times[k]),
             sp |-> FirstAt(spo2, times[k])]]

\* The file opens and every row is written.
SaveToCsvOk ==
    /\ pc = "csv_start"
    /\ rows' = MergeRows(heart_data, spo2_data)
    /\ csv_state' = "ok"
    /\ pc' = "csv_ret"
    /\ UNCHANGED cosmos_state
    /\ UNCHANGED <<dataVars, thresholdVars, evalVars, composeVars, sendVars>>

\* open(CSV_FILE, "w") on line 122 raises (no handler in save_to_csv).
SaveToCsvRaise ==
    /\ pc = "csv_start"
    /\ csv_state' = "failed"
    /\ pc' = "csv_raised"
    /\ UNCHANGED <<rows, cosmos_state>>
    /\ UNCHANGED <<dataVars, thresholdVars, evalVars, composeVars, sendVars>>

NextCsv ==
    \/ SaveToCsvOk
    \/ SaveToCsvRaise

(***************************************************************************)
(* save_to_cosmos (lines 132-191): every failure inside it (no container,  *)
(* a sample that does not convert, a failed insert) is caught there.       *)
(***************************************************************************)
CosmosOutcomes == {"ok", "skipped", "failed"}

SaveToCosmos ==
    /\ pc = "cosmos_start"
    /\ \E outcome \in CosmosOutcomes : cosmos_state' = outcome
    /\ pc' = "cosmos_ret"
    /\ UNCHANGED <<rows, csv_state>>
    /\ UNCHANGED <<dataVars, thresholdVars, evalVars, composeVars, sendVars>>

(***************************************************************************)
(* main (lines 271-297): the calls in order.  The two series are the       *)
(* results of get_dataset.                                                 *)
(***************************************************************************)
mainVars == <<dataVars, thresholdVars, evalVars, composeVars, sendVars, persistVars>>

\* Line 285 raised: the exception leaves main.
MainCsvRaised ==
    /\ pc = "csv_raised"
    /\ pc' = "main_crashed"
    /\ UNCHANGED mainVars

\* Line 285 returned; line 286 is next.
MainAfterCsv ==
    /\ pc = "csv_ret"
    /\ pc' = "cosmos_start"
    /\ UNCHANGED mainVars

\* Line 286 returned; line 288 is next.
MainAfterCosmos ==
    /\ pc = "cosmos_ret"
    /\ pc' = "eval_start"
    /\ UNCHANGED mainVars

\* Lines 290-293: compose when an alert is needed.
MainAlert ==
    /\ alert_needed
    /\ pc = "eval_ret"
    /\ pc' = "compose_start"
    /\ UNCHANGED mainVars

\* Lines 296-297.
MainNoAlert ==
    /\ ~alert_needed
    /\ pc = "eval_ret"
    /\ pc' = "main_done"
    /\ UNCHANGED mainVars

\* Line 294: the composed message is handed to send_twilio_alert.
MainSend ==
    /\ pc = "compose_ret"
    /\ pc' = "send_start"
    /\ UNCHANGED mainVars

\* Line 295.
MainSent ==
    /\ pc = "send_ret"
    /\ pc' = "main_done"
    /\ UNCHANGED mainVars

NextMain ==
    \/ SaveToCsvOk
    \/ SaveToCsvRaise
    \/ MainCsvRaised
    \/ MainAfterCsv
    \/ SaveToCosmos
    \/ MainAfterCosmos
    \/ EvalStart
    \/ EvalLowStep
    \/ EvalLowEnd
    \/ EvalHighStep
    \/ EvalHighEnd
    \/ EvalSpo2Step
    \/ EvalReturn
    \/ MainAlert
    \/ MainNoAlert
    \/ CreateAlertMessage
    \/ MainSend
    \/ SendSkipConfig
    \/ SendClientFail
    \/ SendWrap
    \/ SendAttempt
    \/ SendReturn
    \/ MainSent

(***************************************************************************)
(* Initial states.  Each specification draws the inputs of the function it *)
(* runs; what it does not run keeps the values below.                      *)
(***************************************************************************)
IdleData == heart_data = <<>> /\ spo2_data = <<>>

IdleThresholds ==
    /\ HR_LOW_THRESHOLD = 50
    /\ HR_HIGH_THRESHOLD = NoHigh
    /\ SPO2_LOW_THRESHOLD = 90

IdleEval ==
    /\ alert_needed = FALSE
    /\ reasons = <<>>
    /\ latest_hr = NA
    /\ latest_spo2 = NA
    /\ idx = 1

IdleCompose ==
    /\ TRIAL_ENV = EnvUnset
    /\ SMS_CHAR_LIMIT = 140
    /\ hospitals_link = <<>>
    /\ timestamp = <<>>
    /\ message = <<>>

IdleSend ==
    /\ twilio_cfg = TRUE
    /\ EMERGENCY_CONTACTS = <<>>
    /\ chunks = <<>>
    /\ part = 0
    /\ attempts = <<>>

IdlePersist == rows = <<>> /\ csv_state = "none" /\ cosmos_state = "none"

InitEval ==
    /\ pc = "eval_start"
    /\ heart_data \in SeqsUpTo(HeartSamples, MaxHeart)
    /\ spo2_data \in SeqsUpTo(Spo2Samples, MaxSpo2)
    /\ HR_LOW_THRESHOLD \in LowBounds
    /\ HR_HIGH_THRESHOLD \in HighBounds
    /\ SPO2_LOW_THRESHOLD \in Spo2Bounds
    /\ IdleEval /\ IdleCompose /\ IdleSend /\ IdlePersist

LinkAlphabet == {"a", "b"}
LatestHrInputs == {NumV(48), NA}
LatestSpo2Inputs == {NumV(91)}
TrialEnvValues ==
    {EnvUnset, EnvSet(<<>>), EnvSet(<<"1">>), EnvSet(<<"0">>),
     EnvSet(<<"t", "r", "u", "e">>), EnvSet(<<"T", "R", "U", "E">>),
     EnvSet(<<"Y", "e", "s">>), EnvSet(<<"f", "a", "l", "s", "e">>),
     EnvSet(<<"n", "o">>)}

InitCompose ==
    /\ pc = "compose_start"
    /\ TRIAL_ENV \in TrialEnvValues
    /\ SMS_CHAR_LIMIT \in 1..MaxLimit
    /\ hospitals_link \in SeqsUpTo(LinkAlphabet, MaxLinkLen)
    /\ timestamp = <<>>
    /\ message = <<>>
    /\ alert_needed = TRUE
    /\ reasons = <<>>
    /\ latest_hr \in LatestHrInputs
    /\ latest_spo2 \in LatestSpo2Inputs
    /\ idx = 1
    /\ IdleData /\ IdleThresholds /\ IdleSend /\ IdlePersist

MessageAlphabet == {"a", " "}
\* The configured numbers, named by their position in the list.
ContactLists == {[k \in 1..n |-> k] : n \in 0..MaxContacts}

InitSend ==
    /\ pc = "send_start"
    /\ message \in SeqsUpTo(MessageAlphabet, MaxMsgLen)
    /\ SMS_CHAR_LIMIT \in 1..MaxSendLimit
    /\ twilio_cfg \in BOOLEAN
    /\ EMERGENCY_CONTACTS \in ContactLists
    /\ chunks = <<>>
    /\ part = 0
    /\ attempts = <<>>
    /\ TRIAL_ENV = EnvUnset
    /\ hospitals_link = <<>>
    /\ timestamp = <<>>
    /\ IdleData /\ IdleThresholds /\ IdleEval /\ IdlePersist

InitCsv ==
    /\ pc = "csv_start"
    /\ heart_data \in SeqsUpTo(HeartSamples, MaxHeart)
    /\ spo2_data \in SeqsUpTo(Spo2Samples, MaxSpo2)
    /\ IdleThresholds /\ IdleEval /\ IdleCompose /\ IdleSend /\ IdlePersist

\* The series of a run: empty, within the bounds, breaching, malformed.
MainHeartInputs ==
    {<<>>,
     <<Sample(1, NumV(72))>>,
     <<Sample(1, NumV(48)), Sample(2, NumV(72))>>,
     <<Sample(1, StrV(<<"x">>)), Sample(2, NumV(130))>>}
MainSpo2Inputs == {<<>>, <<Sample(1, NumV(91))>>, <<Sample(1, NumV(88))>>}
MainLink == <<"h", "t", "t", "p", "s", ":", "/", "/", "m", ".", "c", "o", "/", "q">>
MainLimits == {40, 140}

InitMain ==
    /\ pc = "csv_start"
    /\ heart_data \in MainHeartInputs
    /\ spo2_data \in MainSpo2Inputs
    /\ HR_LOW_THRESHOLD = 50
    /\ HR_HIGH_THRESHOLD \in {NoHigh, High(120)}
    /\ SPO2_LOW_THRESHOLD = 90
    /\ TRIAL_ENV \in {EnvUnset, EnvSet(<<"f", "a", "l", "s", "e">>)}
    /\ SMS_CHAR_LIMIT \in MainLimits
    /\ hospitals_link = MainLink
    /\ timestamp = <<>>
    /\ message = <<>>
    /\ twilio_cfg \in BOOLEAN
    /\ EMERGENCY_CONTACTS \in {<<1>>, <<1, 2>>}
    /\ chunks = <<>>
    /\ part = 0
    /\ attempts = <<>>
    /\ IdleEval /\ IdlePersist

SpecEval == InitEval /\ [][NextEval]_vars
SpecCompose == InitCompose /\ [][NextCompose]_vars
SpecSend == InitSend /\ [][NextSend]_vars
SpecCsv == InitCsv /\ [][NextCsv]_vars
SpecMain == InitMain /\ [][NextMain]_vars

(***************************************************************************)
(* Properties.                                                             *)
(***************************************************************************)
\* The field after the "H:" label of a compact message built on base.
LinkField(m, base) == SubSeq(m, Len(base) + 3, Len(m))

\* C1: when the unshortened compact message exceeds the limit by K > 0, the
\* link field of shorten_message's result is K characters shorter than the
\* input link if K < len(link), and empty if K >= len(link).
C1_LinkShortenedByOverflow ==
    pc = "shorten_ret" =>
        LET base == BaseText(latest_hr, latest_spo2, timestamp)
            K == Len(base) + 2 + Len(hospitals_link) - SMS_CHAR_LIMIT
        IN  K > 0 =>
              Len(LinkField(message, base)) =
                 (IF K < Len(hospitals_link) THEN Len(hospitals_link) - K ELSE 0)

\* C2: for a message longer than the limit, every body handed to the SMS
\* client, prefix included, is at most SMS_CHAR_LIMIT long, and the parts
\* are numbered 1..n with n the number of parts.
C2_BodiesWithinLimit ==
    Len(message) > SMS_CHAR_LIMIT =>
        \A k \in 1..Len(attempts) :
            /\ Len(attempts[k].body) <= SMS_CHAR_LIMIT
            /\ attempts[k].part \in 1..Len(chunks)
            /\ attempts[k].body = Body(attempts[k].part, Len(chunks),
                                       chunks[attempts[k].part])

\* The value is numeric and at most / at least / strictly inside the bounds.
NumericAtMost(v, bound) == ~FloatRaises(v) /\ Float(v) <= bound
NumericAtLeast(v, bound) == ~FloatRaises(v) /\ Float(v) >= bound
NumericBetween(v, lo, hi) == ~FloatRaises(v) /\ lo < Float(v) /\ Float(v) < hi

\* C3: every heart-rate sample whose numeric value is <= the low bound gives
\* needs_alert = true and a low-HR reason naming its timestamp, wherever it
\* sits and whatever malformed values precede it.
C3_LowSampleAlerts ==
    pc = "eval_ret" =>
        \A k \in 1..Len(heart_data) :
            NumericAtMost(heart_data[k].val, HR_LOW_THRESHOLD) =>
                /\ alert_needed
                /\ \E j \in 1..Len(reasons) :
                      /\ reasons[j].kind = "LowHR"
                      /\ reasons[j].ts = heart_data[k].ts
                      /\ reasons[j].val = Render(heart_data[k].val)

C3_Witness ==
    /\ pc = "eval_ret"
    /\ Len(heart_data) = 2
    /\ FloatRaises(heart_data[1].val)
    /\ NumericAtMost(heart_data[2].val, HR_LOW_THRESHOLD)
    /\ alert_needed
    /\ \E j \in 1..Len(reasons) :
          reasons[j].kind = "LowHR" /\ reasons[j].ts = heart_data[2].ts

\* C4: with a high bound configured, a heart-rate sample strictly between
\* the low and the high bound has no low-HR and no high-HR reason, at any
\* point of the scan and whatever the other samples are.
C4_BetweenBoundsNoReason ==
    HR_HIGH_THRESHOLD.set =>
        \A k \in 1..Len(heart_data) :
            NumericBetween(heart_data[k].val, HR_LOW_THRESHOLD, HR_HIGH_THRESHOLD.v) =>
                ~\E j \in 1..Len(reasons) :
                    /\ reasons[j].kind \in {"LowHR", "HighHR"}
                    /\ reasons[j].ts = heart_data[k].ts
                    /\ reasons[j].val = Render(heart_data[k].val)

C4_Witness ==
    /\ pc = "eval_ret"
    /\ HR_HIGH_THRESHOLD.set
    /\ Len(heart_data) = 2
    /\ NumericBetween(heart_data[1].val, HR_LOW_THRESHOLD, HR_HIGH_THRESHOLD.v)
    /\ heart_data[2].ts = heart_data[1].ts
    /\ NumericAtLeast(heart_data[2].val, HR_HIGH_THRESHOLD.v)
    /\ Len(reasons) >= 1

RECURSIVE PassReasons(_, _, _)
PassReasons(data, kind, bound) ==
    IF data = <<>> THEN <<>>
    ELSE LET v == Head(data).val
             hit == IF kind = "HighHR" THEN NumericAtLeast(v, bound)
                    ELSE NumericAtMost(v, bound)
         IN  (IF hit THEN <<[kind |-> kind, val |-> Render(v), ts |-> Head(data).ts,
                             bound |-> bound]>>
              ELSE <<>>) \o PassReasons(Tail(data), kind, bound)

\* C6: the returned reasons are the low-HR reasons, then the high-HR reasons
\* (when a high bound is configured), then the low-oxygen reasons, each pass
\* in source order; a sample that meets both heart-rate bounds has one
\* reason in each heart-rate pass.
C6_ReasonOrder ==
    pc = "eval_ret" =>
        reasons = PassReasons(heart_data, "LowHR", HR_LOW_THRESHOLD)
                  \o (IF HR_HIGH_THRESHOLD.set
                      THEN PassReasons(heart_data, "HighHR", HR_HIGH_THRESHOLD.v)
                      ELSE <<>>)
                  \o PassReasons(spo2_data, "LowSpO2", SPO2_LOW_THRESHOLD)

C6_Witness ==
    /\ pc = "eval_ret"
    /\ HR_HIGH_THRESHOLD.set
    /\ HR_HIGH_THRESHOLD.v < HR_LOW_THRESHOLD
    /\ Len(heart_data) = 2
    /\ Len(reasons) = 5
    /\ reasons[1].kind = "LowHR" /\ reasons[1].ts = heart_data[1].ts
    /\ reasons[2].kind = "LowHR" /\ reasons[2].ts = heart_data[2].ts
    /\ reasons[3].kind = "HighHR" /\ reasons[3].ts = heart_data[1].ts
    /\ reasons[4].kind = "HighHR" /\ reasons[4].ts = heart_data[2].ts
    /\ reasons[5].kind = "LowSpO2"
    /\ heart_data[1].ts # heart_data[2].ts

NoRepeats(data) ==
    \A j, k \in 1..Len(data) : data[j].ts = data[k].ts => j = k

BothPopulated(rs) ==
    \A k \in 1..Len(rs) : rs[k].hr # EmptyField /\ rs[k].sp # EmptyField

\* C7 as stated: disjoint timestamp sets give len(heart) + len(oxygen) rows;
\* identical timestamp sets give as many rows as either series is long, each
\* row with both values.
C7_RowCountByLengths ==
    pc = "csv_ret" =>
        /\ TsSet(heart_data) \cap TsSet(spo2_data) = {} =>
              Len(rows) = Len(heart_data) + Len(spo2_data)
        /\ TsSet(heart_data) = TsSet(spo2_data) =>
              /\ Len(rows) = Len(heart_data)
              /\ Len(rows) = Len(spo2_data)
              /\ BothPopulated(rows)

\* C7 amended: the row count is that of the distinct timestamps: the sum of
\* the two series' distinct-timestamp counts when their timestamp sets are
\* disjoint, the common count when the sets are identical (each row then
\* carrying both values); these are the series' lengths when neither series
\* repeats a timestamp.
C7_RowCountByDistinctTimestamps ==
    pc = "csv_ret" =>
        /\ TsSet(heart_data) \cap TsSet(spo2_data) = {} =>
              /\ Len(rows) = Cardinality(TsSet(heart_data)) + Cardinality(TsSet(spo2_data))
              /\ NoRepeats(heart_data) /\ NoRepeats(spo2_data) =>
                    Len(rows) = Len(heart_data) + Len(spo2_data)
        /\ TsSet(heart_data) = TsSet(spo2_data) =>
              /\ Len(rows) = Cardinality(TsSet(heart_data))
              /\ BothPopulated(rows)
              /\ NoRepeats(heart_data) /\ NoRepeats(spo2_data) =>
                    Len(rows) = Len(heart_data) /\ Len(rows) = Len(spo2_data)

C7_Witness ==
    /\ pc = "csv_ret"
    /\ ~NoRepeats(heart_data)
    /\ spo2_data # <<>>
    /\ TsSet(heart_data) \cap TsSet(spo2_data) = {}
    /\ Len(rows) = 2
    /\ Len(heart_data) + Len(spo2_data) = 3

\* C8: a failed persistence step never ends the run: the other persistence
\* step is still attempted, the evaluation still runs, and a breach is still
\* composed and handed to the notification adapter.
C8_PersistenceFailureNotFatal ==
    (csv_state = "failed" \/ cosmos_state = "failed") =>
        /\ pc # "main_crashed"
        /\ pc = "main_done" =>
              /\ csv_state # "none"
              /\ cosmos_state # "none"
              /\ alert_needed <=> (reasons # <<>>)
              /\ alert_needed => message # <<>>

IsCompact(m) == Len(m) >= 3 /\ SubSeq(m, 1, 3) = <<"H", "R", ":">>

\* C9 as stated: compact mode only when the flag is set; with the flag absent
\* the full multi-line message, link verbatim.
C9_AbsentFlagMeansFull ==
    pc = "compose_ret" =>
        /\ IsCompact(message) => TRIAL_ENV.set
        /\ ~TRIAL_ENV.set =>
              message = FullMessage(latest_hr, latest_spo2, timestamp, hospitals_link)

\* The drawn flag values that read as true.
TruthyFlags ==
    {<<"1">>, <<"t", "r", "u", "e">>, <<"T", "R", "U", "E">>, <<"Y", "e", "s">>}

\* C9 amended: compact mode is used when the flag variable is absent (its
\* default is "true") or reads, case-insensitively, 1, true or yes; for any
\* other value full mode is used and the multi-line message embeds the link
\* verbatim, whatever the character limit.
C9_ModeByResolvedFlag ==
    pc = "compose_ret" =>
        IF ~TRIAL_ENV.set \/ TRIAL_ENV.s \in TruthyFlags
        THEN /\ IsCompact(message)
             /\ message = shorten_message(latest_hr, latest_spo2, timestamp, hospitals_link)
        ELSE /\ ~IsCompact(message)
             /\ message = FullMessage(latest_hr, latest_spo2, timestamp, hospitals_link)
             /\ SubSeq(message, Len(message) - Len(hospitals_link) + 1, Len(message))
                   = hospitals_link

C9_Witness ==
    /\ pc = "compose_ret"
    /\ ~TRIAL_ENV.set
    /\ IsCompact(message)
    /\ Len(message) = SMS_CHAR_LIMIT
    /\ Len(hospitals_link) = MaxLinkLen

\* C10: once the client is built, the attempts made so far are the first
\* attempts of the part-major enumeration of (part, contact) pairs, one per
\* pair whatever the outcome of the earlier ones; the procedure can always
\* take its next step until it returns, and returns after exactly
\* n_parts x n_contacts attempts.
C10_DeliveryOrder ==
    part >= 1 =>
        LET n == Len(chunks)
            m == Len(EMERGENCY_CONTACTS)
        IN  /\ Len(attempts) <= n * m
            /\ \A k \in 1..Len(attempts) :
                  /\ attempts[k].part = ((k - 1) \div m) + 1
                  /\ attempts[k].to = EMERGENCY_CONTACTS[((k - 1) % m) + 1]
            /\ pc = "send_ret" => Len(attempts) = n * m
            /\ pc # "send_ret" => ENABLED NextSend

C10_Witness ==
    /\ pc = "send_ret"
    /\ Len(chunks) >= 2
    /\ Len(EMERGENCY_CONTACTS) = 2
    /\ Len(attempts) = 2 * Len(chunks)
    /\ ~attempts[1].ok
    /\ attempts[2].ok

====
